---- MODULE Spec2Model ----
(***************************************************************************)
(* Model of the statx-sys binding (src/src/lib.rs): the #[repr(C)] records *)
(* statx_timestamp and statx, the flag / mask / attribute constants,       *)
(* SYS_statx, and the unsafe wrapper statx() around libc::syscall.         *)
(*                                                                         *)
(* Three specifications share the module:                                  *)
(*   SpecLayout  the compiler laying the two records out field by field,   *)
(*               for each target architecture;                             *)
(*   SpecConst   a caller combining the constants of one group with `|`;   *)
(*   Spec        threads invoking statx() concurrently against a kernel    *)
(*               that answers with any value of c_long.                    *)
(*                                                                         *)
(* Machine words wider than TLC's integers are kept at their width as      *)
(* sequences of 16-bit limbs, most significant first, exactly as the       *)
(* source groups its literals (0x8000_0000 is <<\h8000, \h0000>>).         *)
(***************************************************************************)
EXTENDS Integers, Sequences, FiniteSets

VARIABLES
    target,     \* the architecture the crate is compiled for
    layouts,    \* per record: offsets placed so far, running end, alignment, size
    group,      \* the constant group a caller is combining ("" before it chose)
    picked,     \* the names of the constants or-ed together so far
    acc,        \* the word obtained by or-ing them
    pc,         \* per thread: "idle", "in_kernel", "answered", "done"
    args,       \* per thread: the arguments statx() was invoked with
    calls,      \* per thread: the kernel entries made, in order
    resp,       \* per thread: what the kernel answered
    ret,        \* per thread: what statx() returned
    mem         \* memory: content of every address the threads may hand out

vars == <<target, layouts, group, picked, acc, pc, args, calls, resp, ret, mem>>
layoutVars == <<layouts>>
constVars == <<group, picked, acc>>
callVars == <<pc, args, calls, resp, ret, mem>>

(***************************************************************************)
(* Target architectures.                                                   *)
(***************************************************************************)
Targets == {"x86_64", "x86", "aarch64", "arm"}

\* Width of libc::c_long in 16-bit limbs: LP64 targets have a 64-bit long.
CLongLimbs(t) == IF t \in {"x86_64", "aarch64"} THEN 4 ELSE 2

\* Width of libc::c_int in 16-bit limbs (32 bits on every Linux target).
CIntLimbs == 2

(***************************************************************************)
(* Record layout: #[repr(C)].                                              *)
(***************************************************************************)
Max(a, b) == IF a >= b THEN a ELSE b

AlignUp(off, al) == ((off + al - 1) \div al) * al

ScalarTypes == {"i64", "__u64", "__u32", "__s32", "__u16"}

ScalarSize(ty) ==
    CASE ty \in {"i64", "__u64"} -> 8
      [] ty \in {"__u32", "__s32"} -> 4
      [] ty = "__u16" -> 2

\* 64-bit integers are 4-aligned under the i386 System V ABI, 8-aligned elsewhere.
ScalarAlign(ty, t) ==
    IF ty \in {"i64", "__u64"} /\ t = "x86" THEN 4 ELSE ScalarSize(ty)

F(name, ty, n) == [name |-> name, ty |-> ty, n |-> n]

statx_timestamp ==
    << F("tv_sec", "i64", 1),
       F("tc_nsec", "__u32", 1),
       F("__reserved", "__s32", 1) >>

statx ==
    << F("stx_mask", "__u32", 1),
       F("stx_blksize", "__u32", 1),
       F("stx_attributes", "__u64", 1),
       F("stx_nlink", "__u32", 1),
       F("stx_uid", "__u32", 1),
       F("stx_gid", "__u32", 1),
       F("stx_mode", "__u16", 1),
       F("__spare0", "__u16", 1),
       F("stx_ino", "__u64", 1),
       F("stx_size", "__u64", 1),
       F("stx_blocks", "__u64", 1),
       F("stx_attributes_mask", "__u64", 1),
       F("stx_atime", "statx_timestamp", 1),
       F("stx_btime", "statx_timestamp", 1),
       F("stx_ctime", "statx_timestamp", 1),
       F("stx_mtime", "statx_timestamp", 1),
       F("stx_rdev_major", "__u32", 1),
       F("stx_rdev_minor", "__u32", 1),
       F("stx_dev_major", "__u32", 1),
       F("stx_dev_minor", "__u32", 1),
       F("__spare2", "__u64", 14) >>

Records == {"statx_timestamp", "statx"}

\* Mutants of the declarations: a plausible slip in one field.
Fields_short_spare2(s) ==
    IF s = "statx_timestamp" THEN statx_timestamp
    ELSE [statx EXCEPT ![21] = F("__spare2", "__u64", 13)]

Fields_narrow_attributes(s) ==
    IF s = "statx_timestamp" THEN statx_timestamp
    ELSE [statx EXCEPT ![3] = F("stx_attributes", "__u32", 1)]

Fields_wide_nsec(s) ==
    IF s = "statx_timestamp"
    THEN [statx_timestamp EXCEPT ![2] = F("tc_nsec", "__u64", 1)]
    ELSE statx

Fields_no_spare0(s) ==
    IF s = "statx_timestamp" THEN statx_timestamp
    ELSE SubSeq(statx, 1, 7) \o SubSeq(statx, 9, 21)

Fields(s) == IF s = "statx_timestamp" THEN statx_timestamp ELSE statx

\* size = -1 until the record's layout is complete
NoLayout == [offsets |-> <<>>, end |-> 0, align |-> 1, size |-> -1]

Complete(s) == layouts[s].size # -1

\* A field's type is known once it is a scalar or a record already laid out.
TypeKnown(ty) == IF ty \in ScalarTypes THEN TRUE ELSE Complete(ty)

ElemSize(ty) == IF ty \in ScalarTypes THEN ScalarSize(ty) ELSE layouts[ty].size

ElemAlign(ty) ==
    IF ty \in ScalarTypes THEN ScalarAlign(ty, target) ELSE layouts[ty].align

\* The field (an array for n > 1) takes n elements and has its element's alignment.
FieldSize(f) == f.n * ElemSize(f.ty)

\* Place the next field of record s at the running end rounded up to its alignment.
PlaceField(s) ==
    /\ ~Complete(s)
    /\ Len(layouts[s].offsets) < Len(Fields(s))
    /\ LET f == Fields(s)[Len(layouts[s].offsets) + 1]
       IN /\ TypeKnown(f.ty)
          /\ LET off == AlignUp(layouts[s].end, ElemAlign(f.ty))
             IN layouts' = [layouts EXCEPT
                    ![s].offsets = Append(@, off),
                    ![s].end = off + FieldSize(f),
                    ![s].align = Max(@, ElemAlign(f.ty))]
    /\ UNCHANGED <<target, constVars, callVars>>

\* All fields placed: the size is the end rounded up to the record's alignment.
FinishRecord(s) ==
    /\ ~Complete(s)
    /\ Len(layouts[s].offsets) = Len(Fields(s))
    /\ layouts' = [layouts EXCEPT ![s].size = AlignUp(layouts[s].end, layouts[s].align)]
    /\ UNCHANGED <<target, constVars, callVars>>

InitIdleLayout == layouts = [s \in Records |-> NoLayout]

InitIdleConst == group = "" /\ picked = {} /\ acc = <<>>

InitLayout ==
    /\ target \in Targets
    /\ InitIdleLayout
    /\ InitIdleConst
    /\ pc = <<>> /\ args = <<>> /\ calls = <<>> /\ resp = <<>> /\ ret = <<>>
    /\ mem = <<>>

NextLayout == \E s \in Records : PlaceField(s) \/ FinishRecord(s)

SpecLayout == InitLayout /\ [][NextLayout]_vars

(***************************************************************************)
(* Layout claims.                                                          *)
(***************************************************************************)
\* Offset of the field called name in record s (-1 while it is not placed).
OffsetOf(s, name) ==
    LET idx == CHOOSE i \in 1..Len(Fields(s)) : Fields(s)[i].name = name
    IN IF idx <= Len(layouts[s].offsets) THEN layouts[s].offsets[idx] ELSE -1

Placed(s, name) == OffsetOf(s, name) # -1

\* C1: once the compiler has laid statx out, on any target, its total size
\* is exactly 256 (0x100) bytes.
C1_StatxSize == Complete("statx") => layouts["statx"].size = \h100

C1_Witness == Complete("statx") /\ target = "x86"

\* C2: in statx, stx_mask is at 0, stx_nlink at 0x10, stx_ino at 0x20,
\* stx_atime at 0x40, the device-major field the layout test names
\* (stx_rdev_major) at 0x80 and __spare2 at 0x90.
C2_NamedOffsets ==
    /\ Placed("statx", "stx_mask") => OffsetOf("statx", "stx_mask") = 0
    /\ Placed("statx", "stx_nlink") => OffsetOf("statx", "stx_nlink") = \h10
    /\ Placed("statx", "stx_ino") => OffsetOf("statx", "stx_ino") = \h20
    /\ Placed("statx", "stx_atime") => OffsetOf("statx", "stx_atime") = \h40
    /\ Placed("statx", "stx_rdev_major") => OffsetOf("statx", "stx_rdev_major") = \h80
    /\ Placed("statx", "__spare2") => OffsetOf("statx", "__spare2") = \h90

C2_Witness == Placed("statx", "__spare2") /\ target = "arm"

\* C3: statx_timestamp is exactly 16 bytes with no padding: tv_sec at 0,
\* tc_nsec at 8, __reserved at 12, and the fields' sizes add up to the size.
C3_TimestampLayout ==
    Complete("statx_timestamp") =>
        /\ layouts["statx_timestamp"].size = 16
        /\ layouts["statx_timestamp"].offsets = <<0, 8, 12>>
        /\ layouts["statx_timestamp"].end = layouts["statx_timestamp"].size

C3_Witness == Complete("statx_timestamp") /\ ~Complete("statx") /\ target = "x86"

\* Natural alignment of a type: a scalar's size, a record's widest scalar.
NaturalAlign(ty) ==
    IF ty \in ScalarTypes THEN ScalarSize(ty)
    ELSE LET sizes == {ScalarSize(Fields(ty)[i].ty) : i \in 1..Len(Fields(ty))}
         IN CHOOSE m \in sizes : \A x \in sizes : x <= m

StatxOffsets ==
    << \h00, \h04, \h08, \h10, \h14, \h18, \h1c, \h1e, \h20, \h28, \h30, \h38,
       \h40, \h50, \h60, \h70, \h80, \h84, \h88, \h8c, \h90 >>

\* Bytes of statx that field i occupies.
FieldBytes(i) ==
    LET o == layouts["statx"].offsets[i]
    IN o .. (o + FieldSize(Fields("statx")[i]) - 1)

\* C10: statx has no padding between consecutive fields or at its end, every
\* field is at a multiple of its natural alignment, the fields do not overlap
\* and cover bytes 0..0x100 exactly, and the offsets are the listed ones.
C10_StatxPacked ==
    LET L == layouts["statx"]
        n == Len(L.offsets)
    IN /\ \A i \in 1..n :
            /\ L.offsets[i] =
                 IF i = 1 THEN 0
                 ELSE L.offsets[i - 1] + FieldSize(Fields("statx")[i - 1])
            /\ L.offsets[i] % NaturalAlign(Fields("statx")[i].ty) = 0
            /\ L.offsets[i] = StatxOffsets[i]
       /\ Complete("statx") =>
            /\ n = Len(StatxOffsets)
            /\ L.size = L.end
            /\ \A i, j \in 1..n : i # j => FieldBytes(i) \cap FieldBytes(j) = {}
            /\ UNION {FieldBytes(i) : i \in 1..n} = 0 .. (\h100 - 1)

C10_Witness == Complete("statx") /\ target = "x86_64"

(***************************************************************************)
(* Constants.  c_uint is two limbs, __u64 four.                            *)
(***************************************************************************)
AT_STATX_SYNC_AS_STAT == <<\h0000, \h0000>>
AT_STATX_FORCE_SYNC == <<\h0000, \h2000>>
AT_STATX_DONT_SYNC == <<\h0000, \h4000>>

STATX_TYPE == <<\h0000, \h0001>>
STATX_MODE == <<\h0000, \h0002>>
STATX_NLINK == <<\h0000, \h0004>>
STATX_UID == <<\h0000, \h0008>>
STATX_GID == <<\h0000, \h0010>>
STATX_ATIME == <<\h0000, \h0020>>
STATX_MTIME == <<\h0000, \h0040>>
STATX_CTIME == <<\h0000, \h0080>>
STATX_INO == <<\h0000, \h0100>>
STATX_SIZE == <<\h0000, \h0200>>
STATX_BLOCKS == <<\h0000, \h0400>>
\* Mutant: the combined constant misses STATX_BLOCKS.
STATX_BASIC_STATS_stale == <<\h0000, \h03ff>>
STATX_BASIC_STATS == <<\h0000, \h07ff>>
\* Mutant: STATX_BTIME repeats the bit of STATX_BLOCKS.
STATX_BTIME_dup == <<\h0000, \h0400>>
STATX_BTIME == <<\h0000, \h0800>>
STATX_ALL == <<\h0000, \h0fff>>
STATX__RESERVED == <<\h8000, \h0000>>

STATX_ATTR_COMPRESSED == <<0, 0, \h0000, \h0004>>
STATX_ATTR_IMMUTABLE == <<0, 0, \h0000, \h0010>>
STATX_ATTR_APPEND == <<0, 0, \h0000, \h0020>>
STATX_ATTR_NODUMP == <<0, 0, \h0000, \h0040>>
STATX_ATTR_ENCRYPTED == <<0, 0, \h0000, \h0800>>
STATX_ATTR_AUTOMOUNT == <<0, 0, \h0000, \h1000>>

FlagNames == {"AT_STATX_SYNC_AS_STAT", "AT_STATX_FORCE_SYNC", "AT_STATX_DONT_SYNC"}

BasicNames ==
    {"STATX_TYPE", "STATX_MODE", "STATX_NLINK", "STATX_UID", "STATX_GID",
     "STATX_ATIME", "STATX_MTIME", "STATX_CTIME", "STATX_INO", "STATX_SIZE",
     "STATX_BLOCKS"}

MaskNames == BasicNames \cup {"STATX_BTIME", "STATX__RESERVED"}

AttrNames ==
    {"STATX_ATTR_COMPRESSED", "STATX_ATTR_IMMUTABLE", "STATX_ATTR_APPEND",
     "STATX_ATTR_NODUMP", "STATX_ATTR_ENCRYPTED", "STATX_ATTR_AUTOMOUNT"}

Groups == {"flags", "mask", "attr"}

GroupNames(g) ==
    CASE g = "flags" -> FlagNames
      [] g = "mask" -> MaskNames
      [] g = "attr" -> AttrNames
      [] OTHER -> {}

Value(name) ==
    CASE name = "AT_STATX_SYNC_AS_STAT" -> AT_STATX_SYNC_AS_STAT
      [] name = "AT_STATX_FORCE_SYNC" -> AT_STATX_FORCE_SYNC
      [] name = "AT_STATX_DONT_SYNC" -> AT_STATX_DONT_SYNC
      [] name = "STATX_TYPE" -> STATX_TYPE
      [] name = "STATX_MODE" -> STATX_MODE
      [] name = "STATX_NLINK" -> STATX_NLINK
      [] name = "STATX_UID" -> STATX_UID
      [] name = "STATX_GID" -> STATX_GID
      [] name = "STATX_ATIME" -> STATX_ATIME
      [] name = "STATX_MTIME" -> STATX_MTIME
      [] name = "STATX_CTIME" -> STATX_CTIME
      [] name = "STATX_INO" -> STATX_INO
      [] name = "STATX_SIZE" -> STATX_SIZE
      [] name = "STATX_BLOCKS" -> STATX_BLOCKS
      [] name = "STATX_BTIME" -> STATX_BTIME
      [] name = "STATX__RESERVED" -> STATX__RESERVED
      [] name = "STATX_ATTR_COMPRESSED" -> STATX_ATTR_COMPRESSED
      [] name = "STATX_ATTR_IMMUTABLE" -> STATX_ATTR_IMMUTABLE
      [] name = "STATX_ATTR_APPEND" -> STATX_ATTR_APPEND
      [] name = "STATX_ATTR_NODUMP" -> STATX_ATTR_NODUMP
      [] name = "STATX_ATTR_ENCRYPTED" -> STATX_ATTR_ENCRYPTED
      [] name = "STATX_ATTR_AUTOMOUNT" -> STATX_ATTR_AUTOMOUNT

(***************************************************************************)
(* Bitwise operations on words, limb by limb.                              *)
(***************************************************************************)
RECURSIVE OrNat(_, _)
OrNat(a, b) ==
    IF a = 0 THEN b
    ELSE IF b = 0 THEN a
    ELSE (IF a % 2 = 1 \/ b % 2 = 1 THEN 1 ELSE 0) + 2 * OrNat(a \div 2, b \div 2)

RECURSIVE AndNat(_, _)
AndNat(a, b) ==
    IF a = 0 \/ b = 0 THEN 0
    ELSE (IF a % 2 = 1 /\ b % 2 = 1 THEN 1 ELSE 0) + 2 * AndNat(a \div 2, b \div 2)

RECURSIVE PopNat(_)
PopNat(a) == IF a = 0 THEN 0 ELSE (a % 2) + PopNat(a \div 2)

RECURSIVE SumSeq(_)
SumSeq(q) == IF q = <<>> THEN 0 ELSE Head(q) + SumSeq(Tail(q))

BitOr(x, y) == [i \in 1..Len(x) |-> OrNat(x[i], y[i])]

BitAnd(x, y) == [i \in 1..Len(x) |-> AndNat(x[i], y[i])]

Popcount(x) == SumSeq([i \in 1..Len(x) |-> PopNat(x[i])])

Zero(n) == [i \in 1..n |-> 0]

\* Width in limbs of the constants of group g.
GroupLimbs(g) == IF g = "attr" THEN 4 ELSE 2

\* A caller picks the group of constants it is going to combine.
ChooseGroup(g) ==
    /\ group = ""
    /\ group' = g
    /\ picked' = {}
    /\ acc' = Zero(GroupLimbs(g))
    /\ UNCHANGED <<target, layoutVars, callVars>>

\* The caller ors one more constant of the group into its word.
Combine(name) ==
    /\ name \in GroupNames(group) \ picked
    /\ acc' = BitOr(acc, Value(name))
    /\ picked' = picked \cup {name}
    /\ UNCHANGED <<target, group, layoutVars, callVars>>

InitConst ==
    /\ target \in Targets
    /\ InitIdleLayout
    /\ InitIdleConst
    /\ pc = <<>> /\ args = <<>> /\ calls = <<>> /\ resp = <<>> /\ ret = <<>>
    /\ mem = <<>>

NextConst ==
    \/ \E g \in Groups : ChooseGroup(g)
    \/ \E name \in FlagNames \cup MaskNames \cup AttrNames : Combine(name)

SpecConst == InitConst /\ [][NextConst]_vars

(***************************************************************************)
(* Constant claims.                                                        *)
(***************************************************************************)
\* C6: or-ing the eleven basic mask constants gives STATX_BASIC_STATS, and
\* STATX_BASIC_STATS | STATX_BTIME is STATX_ALL.
C6_CombinedMasks ==
    (group = "mask" /\ picked = BasicNames) =>
        /\ acc = STATX_BASIC_STATS
        /\ BitOr(STATX_BASIC_STATS, STATX_BTIME) = STATX_ALL
        /\ BitOr(acc, STATX_BTIME) = STATX_ALL

C6_Witness == group = "mask" /\ picked = BasicNames

\* C7 as stated: within a group every constant is a single bit value and no
\* two constants share a set bit.
C7_AllSingleBits ==
    /\ \A n \in picked : Popcount(Value(n)) = 1
    /\ \A n, m \in picked : n # m => Popcount(BitAnd(Value(n), Value(m))) = 0

\* C7 amended: within a group the constants are pairwise distinct values, no
\* two share a set bit, and each is a single bit value except
\* AT_STATX_SYNC_AS_STAT, which is 0; so a word or-ed from k of the single-bit
\* constants has exactly k bits set.
C7_DistinctBits ==
    /\ \A n \in picked :
         Popcount(Value(n)) = IF n = "AT_STATX_SYNC_AS_STAT" THEN 0 ELSE 1
    /\ \A n, m \in picked :
         n # m => /\ Value(n) # Value(m)
                  /\ Popcount(BitAnd(Value(n), Value(m))) = 0
    /\ group # "" =>
         Popcount(acc) = Cardinality(picked \ {"AT_STATX_SYNC_AS_STAT"})

C7_Witness == group = "flags" /\ picked = FlagNames

(***************************************************************************)
(* The wrapper statx() and the kernel it enters.                           *)
(***************************************************************************)
NThreads == 2

Threads == 1..NThreads

SYS_statx == 332

\* Each thread owns one statx record; its address is the thread's index.
BufOf(t) == t

\* The caller's preparation of its record, before any kernel write.
Prepared == <<"prepared">>

\* What statx() may be invoked with by thread t: a well-formed request, and
\* one with an invalid descriptor and a null pathname.
ArgSamples(t) ==
    { [dirfd |-> -100, pathname |-> "path", flags |-> AT_STATX_SYNC_AS_STAT,
       mask |-> STATX_BASIC_STATS, statxbuf |-> BufOf(t)],
      [dirfd |-> -1, pathname |-> "NULL", flags |-> AT_STATX_FORCE_SYNC,
       mask |-> STATX_ALL, statxbuf |-> BufOf(t)] }

\* Values of c_long the kernel entry point may answer with: 0, -1, and the
\* extremes of c_int; on LP64 targets also values beyond c_int: 2^31, 2^32,
\* -2^32 and -2^31 - 1.
KernelReturns(t) ==
    IF CLongLimbs(t) = 2
    THEN { <<\h0000, \h0000>>, <<\hffff, \hffff>>,
           <<\h7fff, \hffff>>, <<\h8000, \h0000>> }
    ELSE { <<0, 0, \h0000, \h0000>>, <<\hffff, \hffff, \hffff, \hffff>>,
           <<0, 0, \h7fff, \hffff>>, <<\hffff, \hffff, \h8000, \h0000>>,
           <<0, 0, \h8000, \h0000>>, <<0, 1, \h0000, \h0000>>,
           <<\hffff, \hffff, \h0000, \h0000>>, <<\hffff, \hffff, \h7fff, \hffff>> }

\* Mutant: every entry is given one shared buffer instead of the caller's.
SyscallArgs_shared_buf(a) ==
    <<SYS_statx, a.dirfd, a.pathname, a.flags, a.mask, BufOf(1)>>

\* The argument list handed to libc::syscall, in order.
SyscallArgs(a) ==
    <<SYS_statx, a.dirfd, a.pathname, a.flags, a.mask, a.statxbuf>>

\* `as c_int`: an integer cast to a narrower type keeps the low bits.
\* Mutant: the result read as a success / failure flag, 0 or -1.
AsCInt_normalised(r) ==
    IF \A i \in 1..Len(r) : r[i] = 0 THEN <<0, 0>> ELSE <<\hffff, \hffff>>

AsCInt(r) == SubSeq(r, Len(r) - CIntLimbs + 1, Len(r))

\* statx() is entered and makes its kernel entry.
statx_enter(t) ==
    /\ pc[t] = "idle"
    /\ \E a \in ArgSamples(t) :
         /\ args' = [args EXCEPT ![t] = a]
         /\ calls' = [calls EXCEPT ![t] = Append(@, SyscallArgs(a))]
    /\ pc' = [pc EXCEPT ![t] = "in_kernel"]
    /\ UNCHANGED <<target, layoutVars, constVars, resp, ret, mem>>

\* The kernel serves thread t's entry: it picks the result, and writes a
\* record through the buffer pointer of the entry.  It always writes on
\* success (0); otherwise the buffer is unspecified: written or not.
kernel_answer(t) ==
    /\ pc[t] = "in_kernel"
    /\ LET req == calls[t][Len(calls[t])]
       IN \E r \in KernelReturns(target), wrote \in BOOLEAN :
            /\ (r = Zero(Len(r))) => wrote
            /\ wrote => req[6] \in DOMAIN mem
            /\ resp' = [resp EXCEPT ![t] =
                            [r |-> r, wrote |-> wrote, data |-> <<"stat", t>>]]
            /\ mem' = IF wrote THEN [mem EXCEPT ![req[6]] = <<"stat", t>>] ELSE mem
    /\ pc' = [pc EXCEPT ![t] = "answered"]
    /\ UNCHANGED <<target, layoutVars, constVars, args, calls, ret>>

\* Mutant: a failed entry is tried again.
statx_return_retry(t) ==
    /\ pc[t] = "answered"
    /\ IF resp[t].r # Zero(Len(resp[t].r)) /\ Len(calls[t]) < 2
       THEN /\ calls' = [calls EXCEPT ![t] = Append(@, SyscallArgs(args[t]))]
            /\ pc' = [pc EXCEPT ![t] = "in_kernel"]
            /\ ret' = ret
       ELSE /\ ret' = [ret EXCEPT ![t] = AsCInt(resp[t].r)]
            /\ pc' = [pc EXCEPT ![t] = "done"]
            /\ calls' = calls
    /\ UNCHANGED <<target, layoutVars, constVars, args, resp, mem>>

\* statx() returns what the entry answered, cast to c_int.
statx_return(t) ==
    /\ pc[t] = "answered"
    /\ ret' = [ret EXCEPT ![t] = AsCInt(resp[t].r)]
    /\ pc' = [pc EXCEPT ![t] = "done"]
    /\ UNCHANGED <<target, layoutVars, constVars, args, calls, resp, mem>>

NoArgs == [dirfd |-> 0, pathname |-> "", flags |-> <<>>, mask |-> <<>>, statxbuf |-> 0]

NoResp == [r |-> <<>>, wrote |-> FALSE, data |-> <<>>]

Init ==
    /\ target \in Targets
    /\ InitIdleLayout
    /\ InitIdleConst
    /\ pc = [t \in Threads |-> "idle"]
    /\ args = [t \in Threads |-> NoArgs]
    /\ calls = [t \in Threads |-> <<>>]
    /\ resp = [t \in Threads |-> NoResp]
    /\ ret = [t \in Threads |-> <<>>]
    /\ mem = [t \in Threads |-> Prepared]

Next == \E t \in Threads : statx_enter(t) \/ kernel_answer(t) \/ statx_return(t)

Spec == Init /\ [][Next]_vars

(***************************************************************************)
(* Claims about the wrapper.                                               *)
(***************************************************************************)
\* The c_int w widened back to n limbs, keeping its sign.
SignExtend(w, n) ==
    [i \in 1..n |->
        IF i > n - Len(w) THEN w[i - (n - Len(w))]
        ELSE IF w[1] >= \h8000 THEN \hffff ELSE 0]

\* r is a value of c_long that c_int can represent.
FitsCInt(r) ==
    \A i \in 1..(Len(r) - CIntLimbs) :
        r[i] = IF r[Len(r) - CIntLimbs + 1] >= \h8000 THEN \hffff ELSE 0

\* C4 as stated: whatever value r of c_long the kernel entry answers,
\* statx() returns exactly r.
C4_ReturnsExactlyR ==
    \A t \in Threads :
        pc[t] = "done" => SignExtend(ret[t], CLongLimbs(target)) = resp[t].r

\* C4 amended: statx() returns the low 32 bits of r; it returns exactly r
\* whenever r is representable in c_int (0 and -1 among them, and every
\* value where c_long is 32 bits wide).
C4_ReturnsRWhenItFits ==
    \A t \in Threads :
        pc[t] = "done" =>
            /\ Len(ret[t]) = CIntLimbs
            /\ \A i \in 1..CIntLimbs :
                 ret[t][i] = resp[t].r[Len(resp[t].r) - CIntLimbs + i]
            /\ FitsCInt(resp[t].r) =>
                 SignExtend(ret[t], CLongLimbs(target)) = resp[t].r

C4_Witness ==
    \E t \in Threads :
        /\ pc[t] = "done"
        /\ target = "x86_64"
        /\ resp[t].r = <<\hffff, \hffff, \hffff, \hffff>>
        /\ ret[t] = <<\hffff, \hffff>>

\* C5: an invocation makes exactly one kernel entry, SYS_statx with dirfd,
\* pathname, flags, mask and statxbuf as given and in that order, whatever
\* the arguments and whatever the kernel answers, and then it can return.
C5_OneEntryArgsUnchanged ==
    \A t \in Threads :
        /\ pc[t] = "idle" => calls[t] = <<>>
        /\ pc[t] # "idle" =>
             calls[t] = << <<332, args[t].dirfd, args[t].pathname, args[t].flags,
                             args[t].mask, args[t].statxbuf>> >>
        /\ pc[t] = "answered" => ENABLED statx_return(t)

C5_Witness ==
    \E t \in Threads :
        /\ pc[t] = "done"
        /\ args[t].pathname = "NULL"
        /\ resp[t].r = <<\hffff, \hffff>>

\* The number the kernel ABI assigns to statx on each target.
KernelStatxNumber(t) ==
    CASE t = "x86_64" -> 332
      [] t = "x86" -> 383
      [] t = "aarch64" -> 291
      [] t = "arm" -> 397

\* C8: on every target the crate is built for, each kernel entry statx()
\* makes carries the number the kernel ABI assigns to statx there.
C8_EntryNumberMatchesAbi ==
    \A t \in Threads :
        \A i \in 1..Len(calls[t]) : calls[t][i][1] = KernelStatxNumber(target)

\* C9: with each thread on its own buffer, under every interleaving, a
\* thread's buffer holds what its own kernel entry wrote (or the caller's
\* preparation when that entry wrote nothing), no other invocation touches
\* it, and the value returned is the one of the thread's own entry.
C9_InvocationsIndependent ==
    \A t \in Threads :
        /\ pc[t] \in {"idle", "in_kernel"} => mem[BufOf(t)] = Prepared
        /\ pc[t] \in {"answered", "done"} =>
             mem[BufOf(t)] = IF resp[t].wrote THEN resp[t].data ELSE Prepared
        /\ pc[t] = "done" => ret[t] = AsCInt(resp[t].r)
        /\ \A i \in 1..Len(calls[t]) : calls[t][i][6] = BufOf(t)

C9_Witness ==
    /\ \A t \in Threads : pc[t] = "done" /\ resp[t].wrote
    /\ \E t, u \in Threads : t # u /\ resp[t].r # resp[u].r

====
